---- MODULE Spec2Model ----
(***************************************************************************)
(* Model of src/utils/applescriptEscaping.ts: escapeForAppleScript, the    *)
(* script text built by generateAppleScript, the command line removeItem   *)
(* hands to execAsync, and the mapping of the collaborator's result to the *)
(* outcome removeItem resolves to.                                         *)
(*                                                                         *)
(* Text is a sequence of atoms.  An atom is a one-character string for     *)
(* every character some parser of the model looks at (backslash, quotes,   *)
(* apostrophe, control characters, JSON punctuation, the letters of the    *)
(* escape sequences) or a longer string standing for a run of characters   *)
(* that no parser looks into.  Concatenation of texts is \o.               *)
(*                                                                         *)
(* Four specifications:                                                    *)
(*   SpecEscape  escapeForAppleScript on every text up to MaxLen           *)
(*               characters, and the literal read back;                    *)
(*   Spec        removeItem with an execution collaborator that may        *)
(*               complete with any stdout and stderr or fail with any      *)
(*               thrown value;                                             *)
(*   SpecScript  removeItem with the shell and the script interpreter      *)
(*               behind execAsync, against a document of MaxItems items;   *)
(*   SpecRun     the text generateAppleScript returns, run by the          *)
(*               interpreter as a script of its own against such a         *)
(*               document, and the outcome removeItem makes of the text    *)
(*               printed.                                                  *)
(***************************************************************************)
EXTENDS Integers, Sequences, FiniteSets, TLC

VARIABLES
  pc,         \* position of the call (or of the pure-function check)
  str,        \* escapeForAppleScript: the argument
  escaped,    \* escapeForAppleScript: the returned text
  decoded,    \* the text the script interpreter reads back from the literal
  params,     \* removeItem: the request {id, name, itemType}
  script,     \* removeItem: the text generateAppleScript returned
  command,    \* removeItem: the command line handed to execAsync
  execCalls,  \* number of calls of execAsync during the call of removeItem
  result,     \* what execAsync completed with: {stdout, stderr} or a thrown value
  outcome,    \* what the promise of removeItem settled with
  doc,        \* the front document: flattened tasks, inbox tasks, flattened projects
  before,     \* the front document when removeItem was called
  program,    \* the interpreter's reading of the script text
  ip,         \* the next lookup stage of the running script
  foundItem,  \* the script's variable foundItem
  errorMessage \* the script's variable errorMessage (empty: nothing raised)

escVars  == <<str, escaped, decoded>>
callVars == <<params, script, command, execCalls, result, outcome>>
runVars  == <<doc, before, program, ip, foundItem, errorMessage>>
vars     == <<pc, escVars, callVars, runVars>>

----------------------------------------------------------------------------
(* Characters *)

BS  == "\\"
DQ  == "\""
NL  == "\n"
CR  == "\r"
TAB == "\t"
AP  == "'"

(* JavaScript values: a type tag and, for strings, booleans and numbers,   *)
(* the text.                                                               *)
Undefined == [t |-> "undefined", s |-> <<>>]
Null      == [t |-> "null", s |-> <<>>]
JsStr(x)  == [t |-> "string", s |-> x]
JsBool(b) == [t |-> "boolean", s |-> IF b THEN <<"true">> ELSE <<"false">>]

(* JavaScript truthiness of a value, as `!str`, `if (id)` and `a || b` use it *)
Truthy(v) ==
  CASE v.t = "string"  -> v.s # <<>>
    [] v.t = "boolean" -> v.s = <<"true">>
    [] v.t = "number"  -> v.s # <<"0">>
    [] v.t = "object"  -> TRUE
    [] OTHER           -> FALSE

----------------------------------------------------------------------------
(* escapeForAppleScript *)

(* String.prototype.replace with a global one-character pattern *)
RECURSIVE ReplaceAll(_, _, _)
ReplaceAll(s, c, r) ==
  IF s = <<>> THEN <<>>
  ELSE (IF Head(s) = c THEN r ELSE <<Head(s)>>) \o ReplaceAll(Tail(s), c, r)

(* The backslash replacement moved behind the others *)
escapeBackslashLast(v) ==
  IF ~Truthy(v) THEN <<>>
  ELSE
    LET s1 == ReplaceAll(v.s, DQ, <<BS, DQ>>)
        s2 == ReplaceAll(s1, NL, <<BS, "n">>)
        s3 == ReplaceAll(s2, CR, <<BS, "r">>)
        s4 == ReplaceAll(s3, TAB, <<BS, "t">>)
        s5 == ReplaceAll(s4, BS, <<BS, BS>>)
    IN  s5

(* The replacements of the control characters left out *)
escapeWithoutControls(v) ==
  IF ~Truthy(v) THEN <<>>
  ELSE ReplaceAll(ReplaceAll(v.s, BS, <<BS, BS>>), DQ, <<BS, DQ>>)

escapeForAppleScript(v) ==
  IF ~Truthy(v) THEN <<>>
  ELSE
    LET s1 == ReplaceAll(v.s, BS, <<BS, BS>>)
        s2 == ReplaceAll(s1, DQ, <<BS, DQ>>)
        s3 == ReplaceAll(s2, NL, <<BS, "n">>)
        s4 == ReplaceAll(s3, CR, <<BS, "r">>)
        s5 == ReplaceAll(s4, TAB, <<BS, "t">>)
    IN  s5

----------------------------------------------------------------------------
(* The double-quoted string literal of the script language *)

(* The character an escape sequence of a literal stands for *)
Unescape(c) ==
  CASE c = BS  -> BS
    [] c = DQ  -> DQ
    [] c = "n" -> NL
    [] c = "r" -> CR
    [] c = "t" -> TAB

(* The literal whose body starts at t[i]: its value and the position after *)
(* its closing quote.  ok is FALSE when the text ends inside the literal   *)
(* or a backslash is followed by no escape character.                      *)
RECURSIVE ReadLiteral(_, _, _)
ReadLiteral(t, i, acc) ==
  IF i > Len(t) THEN [ok |-> FALSE, value |-> acc, next |-> i]
  ELSE IF t[i] = DQ THEN [ok |-> TRUE, value |-> acc, next |-> i + 1]
  ELSE IF t[i] = BS THEN
    IF i + 1 <= Len(t) /\ t[i + 1] \in {BS, DQ, "n", "r", "t"}
    THEN ReadLiteral(t, i + 2, Append(acc, Unescape(t[i + 1])))
    ELSE [ok |-> FALSE, value |-> acc, next |-> i]
  ELSE ReadLiteral(t, i + 1, Append(acc, t[i]))

NoLiteral == [ok |-> FALSE, value |-> <<>>, next |-> 0]

----------------------------------------------------------------------------
(* JSON.parse, on the texts the model hands it: objects, strings, true,    *)
(* false, null and unsigned integers, with white space between tokens.     *)
(* Arrays, fractions, exponents, signs and the escapes \b \f \u are not in *)
(* the alphabet of the model.  A longer atom stands for characters other   *)
(* than JSON's punctuation and escape letters, so outside a string it is   *)
(* no token and after a backslash it is no escape.                         *)

JsonWhite  == {" ", NL, CR, TAB}
JsonDigits == {"0", "1", "2", "3", "4", "5", "6", "7", "8", "9"}

JsonFail(i) == [ok |-> FALSE, v |-> Undefined, members |-> <<>>, next |-> i]

RECURSIVE SkipWhite(_, _)
SkipWhite(t, i) ==
  IF i <= Len(t) /\ t[i] \in JsonWhite THEN SkipWhite(t, i + 1) ELSE i

(* The string whose body starts at t[i] *)
RECURSIVE JsonString(_, _, _)
JsonString(t, i, acc) ==
  IF i > Len(t) THEN JsonFail(i)
  ELSE IF t[i] = DQ
    THEN [ok |-> TRUE, v |-> JsStr(acc), members |-> <<>>, next |-> i + 1]
  ELSE IF t[i] \in {NL, CR, TAB} THEN JsonFail(i)
  ELSE IF t[i] = BS THEN
    IF i + 1 <= Len(t) /\ t[i + 1] \in {BS, DQ, "/", "n", "r", "t"}
    THEN JsonString(t, i + 2,
           Append(acc, IF t[i + 1] = "/" THEN "/" ELSE Unescape(t[i + 1])))
    ELSE JsonFail(i)
  ELSE JsonString(t, i + 1, Append(acc, t[i]))

(* The digits starting at t[i]; a number of several digits has no leading 0 *)
RECURSIVE JsonDigitsEnd(_, _)
JsonDigitsEnd(t, i) ==
  IF i <= Len(t) /\ t[i] \in JsonDigits THEN JsonDigitsEnd(t, i + 1) ELSE i

JsonNumber(t, i) ==
  LET e == JsonDigitsEnd(t, i)
  IN  IF t[i] = "0" /\ e > i + 1 THEN JsonFail(i + 1)
      ELSE [ok |-> TRUE, v |-> [t |-> "number", s |-> SubSeq(t, i, e - 1)],
            members |-> <<>>, next |-> e]

RECURSIVE JsonValue(_, _)
RECURSIVE JsonMembers(_, _, _)

(* The value starting at t[i] *)
JsonValue(t, i) ==
  IF i > Len(t) THEN JsonFail(i)
  ELSE IF t[i] = "{" THEN
    LET j == SkipWhite(t, i + 1)
    IN  IF j <= Len(t) /\ t[j] = "}"
        THEN [ok |-> TRUE, v |-> [t |-> "object", s |-> <<>>],
              members |-> <<>>, next |-> j + 1]
        ELSE JsonMembers(t, j, <<>>)
  ELSE IF t[i] = DQ THEN JsonString(t, i + 1, <<>>)
  ELSE IF t[i] \in {"true", "false"}
    THEN [ok |-> TRUE, v |-> JsBool(t[i] = "true"), members |-> <<>>,
          next |-> i + 1]
  ELSE IF t[i] = "null"
    THEN [ok |-> TRUE, v |-> Null, members |-> <<>>, next |-> i + 1]
  ELSE IF t[i] \in JsonDigits THEN JsonNumber(t, i)
  ELSE JsonFail(i)

(* The members of an object from the key at t[i] on, to its closing brace *)
JsonMembers(t, i, acc) ==
  IF i > Len(t) \/ t[i] # DQ THEN JsonFail(i)
  ELSE
    LET k == JsonString(t, i + 1, <<>>)
        c == SkipWhite(t, k.next)
    IN  IF ~k.ok \/ c > Len(t) \/ t[c] # ":" THEN JsonFail(c)
        ELSE
          LET x    == JsonValue(t, SkipWhite(t, c + 1))
              e    == SkipWhite(t, x.next)
              more == Append(acc, [k |-> k.v.s, v |-> x.v])
          IN  IF ~x.ok \/ e > Len(t) THEN JsonFail(e)
              ELSE IF t[e] = "}"
                THEN [ok |-> TRUE, v |-> [t |-> "object", s |-> <<>>],
                      members |-> more, next |-> e + 1]
              ELSE IF t[e] = ","
                THEN JsonMembers(t, SkipWhite(t, e + 1), more)
              ELSE JsonFail(e)

(* JSON.parse(text): ok is FALSE where it throws a SyntaxError *)
JSONParse(t) ==
  LET x == JsonValue(t, SkipWhite(t, 1))
  IN  IF x.ok /\ SkipWhite(t, x.next) > Len(t) THEN x ELSE JsonFail(x.next)

(* result.key: the last member of that key; undefined when the object has *)
(* none, and for a string, a number or a boolean                          *)
RECURSIVE Member(_, _, _)
Member(members, key, n) ==
  IF n = 0 THEN Undefined
  ELSE IF members[n].k = key THEN members[n].v
  ELSE Member(members, key, n - 1)

Prop(x, key) == Member(x.members, <<key>>, Len(x.members))

----------------------------------------------------------------------------
(* The script text of generateAppleScript, piece by piece.  In the blocks  *)
(* with an interpolated id or name, piece A ends with the quote that opens *)
(* the literal and the next piece starts after the quote that closes it.   *)

(* line 68: the script of a request with neither id nor name *)
InvalidRequestScript ==
  <<"return ", DQ, "{", BS, DQ, "success", BS, DQ, ":", "false", ",", BS,
    DQ, "error", BS, DQ, ":", BS, DQ, "Either id or name must be provided",
    BS, DQ, "}", DQ>>

(* lines 72-89: the handler escapeForJSON and the opening of the try and tell blocks *)
ScriptHead ==
  <<"use framework ", DQ, "Foundation", DQ, NL, NL, "property NSString ",
    ":", " a reference to current application", AP, "s NSString", NL,
    "property NSJSONSerialization ", ":",
    " a reference to current application", AP, "s NSJSONSerialization", NL,
    NL, "on escapeForJSON(theText)", NL, "  set nsStr to NSString", AP,
    "s stringWithString", ":", "theText", NL,
    "  set jsonData to NSJSONSerialization", AP, "s dataWithJSONObject",
    ":", "{", "nsStr", "}", " options", ":", "0 |error|", ":",
    "(missing value)", NL, "  set jsonArrayString to (NSString", AP,
    "s alloc()", AP, "s initWithData", ":", "jsonData encoding", ":",
    "4) as text", NL, "  return text 3 thru -3 of jsonArrayString", NL,
    "end escapeForJSON", NL, NL, "try", NL, "  tell application ", DQ,
    "OmniFocus", DQ, NL, "    tell front document", NL,
    "      -- Find the item to remove", NL,
    "      set foundItem to missing value", NL>>

(* lines 94-106: a task by id *)
IdTaskA ==
  <<NL, "        -- Try to find task by ID (search in projects first", ",",
    " then inbox)", NL, "        try", NL,
    "          set foundItem to first flattened task where id = ", DQ>>

IdTaskB ==
  <<NL, "        end try", NL, "        ", NL,
    "        -- If not found in projects", ",", " search in inbox", NL,
    "        if foundItem is missing value then", NL, "          try", NL,
    "            set foundItem to first inbox task where id = ", DQ>>

IdTaskC ==
  <<NL, "          end try", NL, "        end if", NL>>

(* lines 108-113: a project by id *)
IdProjectA ==
  <<NL, "        -- Try to find project by ID", NL, "        try", NL,
    "          set foundItem to first flattened project where id = ", DQ>>

IdProjectB ==
  <<NL, "        end try", NL>>

(* lines 120-132: a task by name, no id given *)
NameTaskA ==
  <<NL, "        -- Find task by name (search in projects first", ",",
    " then inbox)", NL, "        try", NL,
    "          set foundItem to first flattened task where name = ", DQ>>

NameTaskB ==
  <<NL, "        end try", NL, "        ", NL,
    "        -- If not found in projects", ",", " search in inbox", NL,
    "        if foundItem is missing value then", NL, "          try", NL,
    "            set foundItem to first inbox task where name = ", DQ>>

NameTaskC ==
  <<NL, "          end try", NL, "        end if", NL>>

(* lines 134-139: a project by name, no id given *)
NameProjectA ==
  <<NL, "        -- Find project by name", NL, "        try", NL,
    "          set foundItem to first flattened project where name = ", DQ>>

NameProjectB ==
  <<NL, "        end try", NL>>

(* lines 143-157: a task by name after the id stages *)
NameTaskFallbackA ==
  <<NL, "        -- If ID search failed", ",",
    " try to find by name as fallback", NL,
    "        if foundItem is missing value then", NL, "          try", NL,
    "            set foundItem to first flattened task where name = ", DQ>>

NameTaskFallbackB ==
  <<NL, "          end try", NL, "        end if", NL, "        ", NL,
    "        -- If still not found", ",", " search in inbox", NL,
    "        if foundItem is missing value then", NL, "          try", NL,
    "            set foundItem to first inbox task where name = ", DQ>>

NameTaskFallbackC ==
  <<NL, "          end try", NL, "        end if", NL>>

(* lines 159-166: a project by name after the id stage *)
NameProjectFallbackA ==
  <<NL, "        -- If ID search failed", ",",
    " try to find project by name as fallback", NL,
    "        if foundItem is missing value then", NL, "          try", NL,
    "            set foundItem to first flattened project where name = ",
    DQ>>

NameProjectFallbackB ==
  <<NL, "          end try", NL, "        end if", NL>>

(* lines 171-191: the removal, the two results and the error handler *)
TailFound ==
  <<NL, "        -- If we found the item", ",", " remove it", NL,
    "        if foundItem is not missing value then", NL,
    "          set itemName to name of foundItem", NL,
    "          set itemId to id of foundItem as string", NL, NL,
    "          -- Delete the item", NL, "          delete foundItem", NL,
    NL, "          -- Return success (escape name for JSON)", NL,
    "          return ">>

SuccessExpr ==
  <<DQ, "{", BS, DQ, "success", BS, DQ, ":", "true", ",", BS, DQ, "id", BS,
    DQ, ":", BS, DQ, DQ, " & itemId & ", DQ, BS, DQ, ",", BS, DQ, "name",
    BS, DQ, ":", BS, DQ, DQ, " & my escapeForJSON(itemName) & ", DQ, BS,
    DQ, "}", DQ>>

TailElse ==
  <<NL, "        else", NL, "          -- Item not found", NL,
    "          return ">>

NotFoundExpr ==
  <<DQ, "{", BS, DQ, "success", BS, DQ, ":", "false", ",", BS, DQ, "error",
    BS, DQ, ":", BS, DQ, "Item not found", BS, DQ, "}", DQ>>

TailOnError ==
  <<NL, "        end if", NL, "      end tell", NL, "    end tell", NL,
    "  on error errorMessage", NL, "    return ">>

ErrorExpr ==
  <<DQ, "{", BS, DQ, "success", BS, DQ, ":", "false", ",", BS, DQ, "error",
    BS, DQ, ":", BS, DQ, DQ, " & my escapeForJSON(errorMessage) & ", DQ,
    BS, DQ, "}", DQ>>

TailEnd ==
  <<NL, "  end try", NL, "  ">>

ScriptTail ==
  TailFound \o SuccessExpr \o TailElse \o NotFoundExpr \o TailOnError \o
  ErrorExpr \o TailEnd

IdTask(id) == IdTaskA \o id \o <<DQ>> \o IdTaskB \o id \o <<DQ>> \o IdTaskC

IdProject(id) == IdProjectA \o id \o <<DQ>> \o IdProjectB

NameTask(name) ==
  NameTaskA \o name \o <<DQ>> \o NameTaskB \o name \o <<DQ>> \o NameTaskC

NameProject(name) == NameProjectA \o name \o <<DQ>> \o NameProjectB

NameTaskFallback(name) ==
  NameTaskFallbackA \o name \o <<DQ>> \o NameTaskFallbackB \o name \o <<DQ>> \o
  NameTaskFallbackC

NameProjectFallback(name) ==
  NameProjectFallbackA \o name \o <<DQ>> \o NameProjectFallbackB

(* The name search emitted unguarded whenever a name is given *)
generateNameUnguarded(p) ==
  LET id   == escapeForAppleScript(p.id)
      name == escapeForAppleScript(p.name)
      task == p.itemType = "task"
      idSearch ==
        IF id # <<>>
        THEN (IF task THEN IdTask(id) ELSE IdProject(id))
        ELSE <<>>
      nameSearch ==
        IF name # <<>>
        THEN (IF task THEN NameTask(name) ELSE NameProject(name))
        ELSE <<>>
  IN  IF id = <<>> /\ name = <<>>
      THEN InvalidRequestScript
      ELSE ScriptHead \o idSearch \o nameSearch \o ScriptTail

generateAppleScript(p) ==
  LET id   == escapeForAppleScript(p.id)
      name == escapeForAppleScript(p.name)
      task == p.itemType = "task"
      idSearch ==
        IF id # <<>>
        THEN (IF task THEN IdTask(id) ELSE IdProject(id))
        ELSE <<>>
      nameSearch ==
        IF id = <<>> /\ name # <<>>
        THEN (IF task THEN NameTask(name) ELSE NameProject(name))
        ELSE IF id # <<>> /\ name # <<>>
        THEN (IF task THEN NameTaskFallback(name) ELSE NameProjectFallback(name))
        ELSE <<>>
  IN  IF id = <<>> /\ name = <<>>
      THEN InvalidRequestScript
      ELSE ScriptHead \o idSearch \o nameSearch \o ScriptTail

(* line 212: the command line; the shell reads a single-quoted word up to *)
(* the next apostrophe, whatever the characters between                   *)
CommandLine(s) == <<"osascript -e ", AP>> \o s \o <<AP>>

RECURSIVE ReadSingleQuoted(_, _, _)
ReadSingleQuoted(t, i, acc) ==
  IF i > Len(t) THEN [ok |-> FALSE, value |-> acc, next |-> i]
  ELSE IF t[i] = AP THEN [ok |-> TRUE, value |-> acc, next |-> i + 1]
  ELSE ReadSingleQuoted(t, i + 1, Append(acc, t[i]))

(* The single-quoted text that opens the argument of -e, as the shell      *)
(* reads it from the command line, and whether the command line ends      *)
(* where that quote closes; only then is the argument this text, and the  *)
(* text the whole script                                                  *)
ShellArgument(c) ==
  LET q == ReadSingleQuoted(c, 3, <<>>)
  IN  [quoted |-> q.value, whole |-> q.ok /\ q.next = Len(c) + 1]

----------------------------------------------------------------------------
(* The script interpreter: how the script text reads and what it does *)

StartsWith(t, i, piece) ==
  /\ i + Len(piece) - 1 <= Len(t)
  /\ SubSeq(t, i, i + Len(piece) - 1) = piece

(* The blocks of lookup statements.  Each stage is                        *)
(*   try / set foundItem to first <coll> where <key> = "<literal>" / end try *)
(* and a guarded stage stands inside `if foundItem is missing value then`.  *)
Blocks ==
  << [parts  |-> <<IdTaskA, IdTaskB, IdTaskC>>,
      stages |-> << [coll |-> "flattened task", key |-> "id", guarded |-> FALSE],
                    [coll |-> "inbox task", key |-> "id", guarded |-> TRUE] >>],
     [parts  |-> <<IdProjectA, IdProjectB>>,
      stages |-> << [coll |-> "flattened project", key |-> "id", guarded |-> FALSE] >>],
     [parts  |-> <<NameTaskA, NameTaskB, NameTaskC>>,
      stages |-> << [coll |-> "flattened task", key |-> "name", guarded |-> FALSE],
                    [coll |-> "inbox task", key |-> "name", guarded |-> TRUE] >>],
     [parts  |-> <<NameProjectA, NameProjectB>>,
      stages |-> << [coll |-> "flattened project", key |-> "name", guarded |-> FALSE] >>],
     [parts  |-> <<NameTaskFallbackA, NameTaskFallbackB, NameTaskFallbackC>>,
      stages |-> << [coll |-> "flattened task", key |-> "name", guarded |-> TRUE],
                    [coll |-> "inbox task", key |-> "name", guarded |-> TRUE] >>],
     [parts  |-> <<NameProjectFallbackA, NameProjectFallbackB>>,
      stages |-> << [coll |-> "flattened project", key |-> "name", guarded |-> TRUE] >>] >>

NoProgram == [ok |-> FALSE, kind |-> "none", stages |-> <<>>, next |-> 0]

(* Block b read from t[i]: its stages with the values of their literals *)
RECURSIVE ParseBlock(_, _, _, _, _)
ParseBlock(t, i, b, k, acc) ==
  IF ~StartsWith(t, i, b.parts[k]) THEN NoProgram
  ELSE IF k > Len(b.stages)
    THEN [ok |-> TRUE, kind |-> "removal", stages |-> acc,
          next |-> i + Len(b.parts[k])]
  ELSE
    LET lit == ReadLiteral(t, i + Len(b.parts[k]), <<>>)
    IN  IF ~lit.ok THEN NoProgram
        ELSE ParseBlock(t, lit.next, b, k + 1,
               Append(acc, [coll    |-> b.stages[k].coll,
                            key     |-> b.stages[k].key,
                            guarded |-> b.stages[k].guarded,
                            value   |-> lit.value]))

(* The lookup blocks from t[i] up to the closing part of the script *)
RECURSIVE ParseBody(_, _, _)
ParseBody(t, i, acc) ==
  IF StartsWith(t, i, ScriptTail) /\ i + Len(ScriptTail) - 1 = Len(t)
  THEN [ok |-> TRUE, kind |-> "removal", stages |-> acc, next |-> Len(t) + 1]
  ELSE
    LET starting == {n \in 1..Len(Blocks) : StartsWith(t, i, Blocks[n].parts[1])}
    IN  IF starting = {} THEN NoProgram
        ELSE
          LET b == ParseBlock(t, i, Blocks[CHOOSE n \in starting : TRUE], 1, <<>>)
          IN  IF ~b.ok THEN NoProgram
              ELSE ParseBody(t, b.next, acc \o b.stages)

(* A result expression from t[i]: literals joined with the variables of env *)
RECURSIVE EvalConcat(_, _, _, _)
EvalConcat(t, i, acc, env) ==
  IF i > Len(t) \/ t[i] # DQ THEN [ok |-> FALSE, value |-> acc, next |-> i]
  ELSE
    LET lit == ReadLiteral(t, i + 1, <<>>)
    IN  IF ~lit.ok THEN [ok |-> FALSE, value |-> acc, next |-> lit.next]
        ELSE IF lit.next <= Len(t) /\ t[lit.next] \in DOMAIN env
          THEN EvalConcat(t, lit.next + 1, acc \o lit.value \o env[t[lit.next]], env)
        ELSE [ok |-> TRUE, value |-> acc \o lit.value, next |-> lit.next]

NoVariables == [x \in {} |-> <<>>]

(* The script text as the interpreter compiles it: the one-statement     *)
(* script of line 68, or the removal script with its lookup stages; ok   *)
(* is FALSE for a text that is neither (a syntax error)                  *)
ParseScript(t) ==
  IF Len(t) >= 1 /\ t[1] = "return " THEN
    LET e == EvalConcat(t, 2, <<>>, NoVariables)
    IN  IF e.ok /\ e.next = Len(t) + 1
        THEN [ok |-> TRUE, kind |-> "return", stages |-> <<>>, next |-> e.next]
        ELSE NoProgram
  ELSE IF StartsWith(t, 1, ScriptHead)
    THEN ParseBody(t, Len(ScriptHead) + 1, <<>>)
  ELSE NoProgram

(* The front document *)
Collection(d, coll) ==
  CASE coll = "flattened task"    -> d.tasks
    [] coll = "inbox task"        -> d.inbox
    [] coll = "flattened project" -> d.projects

Missing == [coll |-> "missing value", index |-> 0]

ItemOf(d, ref) == Collection(d, ref.coll)[ref.index]

(* first <coll> where <key> = value: the reference, or missing value     *)
(* where the application raises because there is none                    *)
First(d, coll, key, value) ==
  LET c    == Collection(d, coll)
      hits == {n \in 1..Len(c) : c[n][key] = value}
  IN  IF hits = {} THEN Missing
      ELSE [coll |-> coll, index |-> CHOOSE n \in hits : \A m \in hits : n <= m]

(* One lookup stage: a stage inside `if foundItem is missing value` is   *)
(* skipped once an item is found; `try` swallows the error of no match   *)
RunStage(d, stage, found) ==
  IF stage.guarded /\ found # Missing THEN found
  ELSE
    LET hit == First(d, stage.coll, stage.key, stage.value)
    IN  IF hit = Missing THEN found ELSE hit

RemoveAt(seq, n) == SubSeq(seq, 1, n - 1) \o SubSeq(seq, n + 1, Len(seq))

(* delete foundItem *)
Delete(d, ref) ==
  [tasks    |-> IF ref.coll = "flattened task"
                THEN RemoveAt(d.tasks, ref.index) ELSE d.tasks,
   inbox    |-> IF ref.coll = "inbox task"
                THEN RemoveAt(d.inbox, ref.index) ELSE d.inbox,
   projects |-> IF ref.coll = "flattened project"
                THEN RemoveAt(d.projects, ref.index) ELSE d.projects]

(* lines 77-82, escapeForJSON: NSJSONSerialization writes the array      *)
(* ["<text>"], of which the handler returns `text 3 thru -3`             *)
RECURSIVE JsonEncode(_)
JsonEncode(text) ==
  IF text = <<>> THEN <<>>
  ELSE LET c == Head(text)
       IN (CASE c = DQ  -> <<BS, DQ>>
             [] c = BS  -> <<BS, BS>>
             [] c = NL  -> <<BS, "n">>
             [] c = CR  -> <<BS, "r">>
             [] c = TAB -> <<BS, "t">>
             [] c = "/" -> <<BS, "/">>
             [] OTHER   -> <<c>>) \o JsonEncode(Tail(text))

RangeError == <<"text 3 thru -3 of jsonArrayString cannot be read">>

(* For the empty text the array is [""], four characters, and the range  *)
(* 3 thru -3 runs from the third character back to the second: the       *)
(* interpreter raises, or reads the range in ascending order, the two    *)
(* quotes.                                                               *)
escapeForJSON(text) ==
  LET arr == <<"[", DQ>> \o JsonEncode(text) \o <<DQ, "]">>
  IN  IF text # <<>>
      THEN {[ok |-> TRUE, value |-> SubSeq(arr, 3, Len(arr) - 2)]}
      ELSE {[ok |-> TRUE, value |-> SubSeq(arr, 2, 3)],
            [ok |-> FALSE, value |-> RangeError]}

(* The three results of the script; osascript prints the result and a    *)
(* line feed                                                             *)
SuccessOutput(itemId, escapedName) ==
  EvalConcat(SuccessExpr, 1, <<>>,
             (" & itemId & " :> itemId) @@
             (" & my escapeForJSON(itemName) & " :> escapedName)).value \o <<NL>>

NotFoundOutput == EvalConcat(NotFoundExpr, 1, <<>>, NoVariables).value \o <<NL>>

ErrorOutput(escapedMessage) ==
  EvalConcat(ErrorExpr, 1, <<>>,
             (" & my escapeForJSON(errorMessage) & " :> escapedMessage)).value
  \o <<NL>>

DeleteError == <<"OmniFocus got an error", ":", " the item cannot be deleted">>

(* The ways a run of the script ends: the document it leaves, the item it *)
(* found, the error its handler caught (empty: none) and the text printed *)

(* line 68: the one-statement script prints its literal *)
ReturnResult(t, d) ==
  { [doc |-> d, found |-> Missing, errorMessage |-> <<>>,
     stdout |-> EvalConcat(t, 2, <<>>, NoVariables).value \o <<NL>>] }

(* lines 173-181 (and 188-189 when escapeForJSON raises): the item is    *)
(* read, deleted, and the result is built from its id and escaped name   *)
RemovalResults(d, found) ==
  LET itemName == ItemOf(d, found).name
      itemId   == ItemOf(d, found).id
  IN  { [doc |-> Delete(d, found), found |-> found,
         errorMessage |-> IF e.ok THEN <<>> ELSE e.value,
         stdout |-> IF e.ok THEN SuccessOutput(itemId, e.value)
                    ELSE ErrorOutput(JsonEncode(e.value))] :
        e \in escapeForJSON(itemName) }

(* lines 178, 188-189: delete raises and the error handler reports it *)
FaultResult(d, found) ==
  { [doc |-> d, found |-> found, errorMessage |-> DeleteError,
     stdout |-> ErrorOutput(JsonEncode(DeleteError))] }

(* lines 182-184: no stage found an item *)
NotFoundResult(d) ==
  { [doc |-> d, found |-> Missing, errorMessage |-> <<>>,
     stdout |-> NotFoundOutput] }

(* lines 94-166: the stages from stage k on, in the order of the text *)
RECURSIVE RunStages(_, _, _, _)
RunStages(d, stages, k, found) ==
  IF k > Len(stages) THEN found
  ELSE RunStages(d, stages, k + 1, RunStage(d, stages[k], found))

(* A whole run of the compiled text t against the document d *)
RunScript(prog, t, d) ==
  IF prog.kind = "return" THEN ReturnResult(t, d)
  ELSE
    LET found == RunStages(d, prog.stages, 1, Missing)
    IN  IF found = Missing THEN NotFoundResult(d)
        ELSE RemovalResults(d, found) \cup FaultResult(d, found)

----------------------------------------------------------------------------
(* removeItem: the outcome *)

Pending ==
  [state |-> "pending", success |-> Undefined, id |-> Undefined,
   name |-> Undefined, error |-> Undefined]

Resolved(success, id, name, error) ==
  [state |-> "resolved", success |-> success, id |-> id, name |-> name,
   error |-> error]

(* The promise rejects: an exception left the catch block *)
Rejected ==
  [state |-> "rejected", success |-> Undefined, id |-> Undefined,
   name |-> Undefined, error |-> Undefined]

NoThrown == [v |-> Undefined, message |-> Undefined]

NoResult ==
  [kind |-> "none", stdout |-> <<>>, stderr |-> <<>>, thrown |-> NoThrown]

Completed(stdout, stderr) ==
  [kind |-> "completed", stdout |-> stdout, stderr |-> stderr,
   thrown |-> NoThrown]

Failed(thrown) ==
  [kind |-> "failed", stdout |-> <<>>, stderr |-> <<>>, thrown |-> thrown]

(* lines 220-237: JSON.parse(stdout) and the copy of the four fields; the *)
(* inner catch takes the SyntaxError of JSON.parse and the TypeError of   *)
(* result.success on null                                                 *)
MapStdout(stdout) ==
  LET r == JSONParse(stdout)
  IN  IF r.ok /\ r.v.t # "null"
      THEN Resolved(Prop(r, "success"), Prop(r, "id"), Prop(r, "name"),
                    Prop(r, "error"))
      ELSE Resolved(JsBool(FALSE), Undefined, Undefined,
                    JsStr(<<"Failed to parse result", ":", " ">> \o stdout))

(* A non-empty stderr taken for a failure *)
MapResultStderrFails(stdout, stderr) ==
  IF stderr # <<>>
  THEN Resolved(JsBool(FALSE), Undefined, Undefined, JsStr(stderr))
  ELSE MapStdout(stdout)

(* lines 212-237: stderr is logged when it is not empty and plays no     *)
(* other part                                                            *)
MapResult(stdout, stderr) == MapStdout(stdout)

(* lines 238-250: the outer catch.  Line 242 reads error.message without *)
(* the ?. of line 248 and calls includes on it when it is truthy.        *)
HandleError(thrown) ==
  IF thrown.v.t \in {"null", "undefined"} THEN Rejected
  ELSE IF Truthy(thrown.message) /\ thrown.message.t # "string" THEN Rejected
  ELSE Resolved(JsBool(FALSE), Undefined, Undefined,
                IF Truthy(thrown.message) THEN thrown.message
                ELSE JsStr(<<"Unknown error in removeItem">>))

----------------------------------------------------------------------------
(* The escaper on its own: every text up to MaxLen characters *)

MaxLen == 3

Chars == {BS, DQ, NL, CR, TAB, AP, "n", "r", "t", "a"}

Texts == UNION {[1..n -> Chars] : n \in 0..MaxLen}

EscapeInputs == {Undefined, Null} \cup {JsStr(x) : x \in Texts}

EmptyDocument == [tasks |-> <<>>, inbox |-> <<>>, projects |-> <<>>]

NoRequest == [id |-> Undefined, name |-> Undefined, itemType |-> "task"]

EscapeIdle ==
  /\ str = Undefined
  /\ escaped = <<>>
  /\ decoded = NoLiteral

CallIdle ==
  /\ params = NoRequest
  /\ script = <<>>
  /\ command = <<>>
  /\ execCalls = 0
  /\ result = NoResult
  /\ outcome = Pending

RunIdle ==
  /\ doc = EmptyDocument
  /\ before = EmptyDocument
  /\ program = NoProgram
  /\ ip = 0
  /\ foundItem = Missing
  /\ errorMessage = <<>>

InitEscape ==
  /\ pc = "escape"
  /\ str \in EscapeInputs
  /\ escaped = <<>>
  /\ decoded = NoLiteral
  /\ CallIdle
  /\ RunIdle

Escape ==
  /\ pc = "escape"
  /\ escaped' = escapeForAppleScript(str)
  /\ pc' = "read"
  /\ UNCHANGED <<str, decoded, callVars, runVars>>

(* The interpreter reads the literal "<escaped>" back *)
ReadBack ==
  /\ pc = "read"
  /\ decoded' = ReadLiteral(<<DQ>> \o escaped \o <<DQ>>, 2, <<>>)
  /\ pc' = "done"
  /\ UNCHANGED <<str, escaped, callVars, runVars>>

NextEscape == Escape \/ ReadBack

SpecEscape == InitEscape /\ [][NextEscape]_vars

----------------------------------------------------------------------------
(* removeItem *)

(* lines 200-212, up to the await: the script, the command line, and the *)
(* call of execAsync on it, whatever the request; removeItem is then      *)
(* suspended until the promise of execAsync settles                       *)
Generate ==
  /\ pc = "call"
  /\ script' = generateAppleScript(params)
  /\ command' = CommandLine(script')
  /\ execCalls' = execCalls + 1
  /\ pc' = "await"
  /\ UNCHANGED <<params, result, outcome, escVars, runVars>>

(* lines 214-237: execAsync completed *)
ParseResult ==
  /\ pc = "parse"
  /\ outcome' = MapResult(result.stdout, result.stderr)
  /\ pc' = "done"
  /\ UNCHANGED <<params, script, command, execCalls, result, escVars, runVars>>

(* lines 238-250: execAsync failed *)
CatchError ==
  /\ pc = "catch"
  /\ outcome' = HandleError(result.thrown)
  /\ pc' = "done"
  /\ UNCHANGED <<params, script, command, execCalls, result, escVars, runVars>>

----------------------------------------------------------------------------
(* removeItem with any execution collaborator: execAsync completes with  *)
(* any stdout and stderr, or fails with any thrown value                  *)

Stdouts ==
  { <<"{", DQ, "success", DQ, ":", "true", ",", DQ, "id", DQ, ":", DQ, "abc123",
      DQ, ",", DQ, "name", DQ, ":", DQ, "Q3 Planning", DQ, "}", NL>>,
    <<"{", DQ, "success", DQ, ":", "false", ",", DQ, "error", DQ, ":", DQ,
      "Item not found", DQ, "}", NL>>,
    <<"{", DQ, "success", DQ, ":", "true", "}", NL>>,
    <<"{", DQ, "success", DQ, ":", "false", "}", NL>>,
    <<"{", DQ, "success", DQ, ":", "true", ",", DQ, "id", DQ, ":", DQ, "abc123",
      DQ, ",", DQ, "name", DQ, ":", DQ, "Q3 Planning", DQ, ",", DQ, "error", DQ,
      ":", DQ, "late", DQ, "}", NL>>,
    <<"{", "}", NL>>,
    <<"{", DQ, "success", DQ, ":", DQ, "yes", DQ, "}">>,
    <<"null", NL>>,
    <<"true", NL>>,
    <<"5", NL>>,
    <<DQ, "done", DQ, NL>>,
    <<"Error", ":", " syntax error", NL>>,
    <<"{", DQ, "success", DQ, ":", "true", ",", DQ, "id", DQ, ":", DQ, "abc123",
      DQ, ",", DQ, "name", DQ, ":", DQ, DQ, DQ, DQ, "}", NL>>,
    <<>> }

Stderrs == { <<>>, <<"warning", ":", " deprecated", NL>> }

Thrown ==
  { [v |-> [t |-> "object", s |-> <<>>],
     message |-> JsStr(<<"Command failed", ":", " osascript">>)],
    [v |-> [t |-> "object", s |-> <<>>],
     message |-> JsStr(<<"execution error", ":", " syntax error">>)],
    [v |-> [t |-> "object", s |-> <<>>], message |-> JsStr(<<>>)],
    [v |-> [t |-> "object", s |-> <<>>], message |-> Undefined],
    [v |-> [t |-> "object", s |-> <<>>], message |-> [t |-> "number", s |-> <<"5">>]],
    [v |-> JsStr(<<"killed">>), message |-> Undefined],
    [v |-> Null, message |-> Undefined],
    [v |-> Undefined, message |-> Undefined] }

RequestTexts ==
  { Undefined, JsStr(<<>>), JsStr(<<"a">>), JsStr(<<"a", AP, "b">>),
    JsStr(<<DQ, BS, NL>>) }

Requests ==
  [id : RequestTexts, name : RequestTexts, itemType : {"task", "project"}]

Init ==
  /\ pc = "call"
  /\ params \in Requests
  /\ script = <<>>
  /\ command = <<>>
  /\ execCalls = 0
  /\ result = NoResult
  /\ outcome = Pending
  /\ EscapeIdle
  /\ RunIdle

(* line 212: the promise of execAsync resolves and removeItem resumes *)
ExecResolve ==
  /\ pc = "await"
  /\ \E out \in Stdouts, err \in Stderrs : result' = Completed(out, err)
  /\ pc' = "parse"
  /\ UNCHANGED <<params, script, command, execCalls, outcome, escVars, runVars>>

(* line 212: the promise of execAsync rejects and removeItem resumes in   *)
(* the catch block                                                        *)
ExecReject ==
  /\ pc = "await"
  /\ \E th \in Thrown : result' = Failed(th)
  /\ pc' = "catch"
  /\ UNCHANGED <<params, script, command, execCalls, outcome, escVars, runVars>>

Next == Generate \/ ExecResolve \/ ExecReject \/ ParseResult \/ CatchError

Spec == Init /\ [][Next]_vars

----------------------------------------------------------------------------
(* The documents and requests of the two specifications that follow *)

MaxItems == 2

ItemIds == <<"a", "b", "c", "d">>

ItemNames == { <<>>, <<"x">>, <<"y", DQ>> }

Places == {"flattened task", "inbox task", "flattened project"}

(* The items 1..MaxItems, each in one collection under some name; the     *)
(* identifiers of a document are distinct                                 *)
Layouts == [1..MaxItems -> [place : Places, name : ItemNames]]

RECURSIVE Gather(_, _, _)
Gather(layout, place, k) ==
  IF k > MaxItems THEN <<>>
  ELSE (IF layout[k].place = place
        THEN << [id |-> <<ItemIds[k]>>, name |-> layout[k].name] >>
        ELSE <<>>) \o Gather(layout, place, k + 1)

Document(layout) ==
  [tasks    |-> Gather(layout, "flattened task", 1),
   inbox    |-> Gather(layout, "inbox task", 1),
   projects |-> Gather(layout, "flattened project", 1)]

ScriptRequests ==
  [id       : {Undefined, JsStr(<<"a">>), JsStr(<<"b">>), JsStr(<<"z", DQ>>)},
   name     : {Undefined, JsStr(<<"x">>), JsStr(<<"y", DQ>>)},
   itemType : {"task", "project"}]

----------------------------------------------------------------------------
(* removeItem with the collaborator the code has: execAsync hands the      *)
(* command line of line 212 to the shell, the shell reads the argument of  *)
(* -e, and osascript runs the text it is handed against the front          *)
(* document.                                                               *)

InitScript ==
  /\ pc = "call"
  /\ params \in ScriptRequests
  /\ \E layout \in Layouts : doc = Document(layout)
  /\ before = doc
  /\ script = <<>>
  /\ command = <<>>
  /\ execCalls = 0
  /\ result = NoResult
  /\ outcome = Pending
  /\ program = NoProgram
  /\ ip = 0
  /\ foundItem = Missing
  /\ errorMessage = <<>>
  /\ EscapeIdle

(* /bin/sh is dash on some systems and bash on others; the two word      *)
(* their messages differently                                             *)
Shells == {"dash", "bash"}

(* The grave accent that bash puts before a quoted token; an atom named  *)
(* for the character                                                     *)
GRAVE == "GRAVE ACCENT"

(* What the shell writes when osascript is not on the path *)
OsascriptNotFound(sh) ==
  IF sh = "dash"
  THEN <<"/bin/sh", ":", " 1", ":", " osascript", ":", " not found", NL>>
  ELSE <<"/bin/sh", ":", " line 1", ":", " osascript", ":",
         " command not found", NL>>

(* What the shell writes when the text behind the closing apostrophe is   *)
(* read on as words and commands: `property` (line 75, the fourth line of *)
(* the command line) is no command, and the parenthesis of `alloc()`      *)
(* (line 80, the ninth) is a syntax error, at which the shell stops with  *)
(* status 2                                                               *)
ShellSyntaxError(sh) ==
  IF sh = "dash"
  THEN <<"/bin/sh", ":", " 4", ":", " property", ":", " not found", NL,
         "/bin/sh", ":", " 9", ":", " Syntax error", ":", " ", DQ, "(", DQ,
         " unexpected", NL>>
  ELSE <<"/bin/sh", ":", " line 4", ":", " property", ":",
         " command not found", NL,
         "/bin/sh", ":", " -c", ":", " line 9", ":",
         " syntax error near unexpected token ", GRAVE, "(", AP, NL,
         "/bin/sh", ":", " -c", ":", " line 9", ":", " ", GRAVE,
         "  set jsonArrayString to (NSString", AP, "s alloc()", AP,
         "s initWithData", ":", "jsonData encoding", ":", "4) as text", AP, NL>>

CompileError == <<"osascript", ":", " syntax error", NL>>

(* line 212: the error execAsync rejects with when the shell ends with a  *)
(* status other than 0                                                    *)
CommandFailed(c, stderr) ==
  [v |-> [t |-> "object", s |-> <<>>],
   message |-> JsStr(<<"Command failed", ":", " ">> \o c \o <<NL>> \o stderr)]

(* line 212: the child process that execAsync started ends and the       *)
(* promise settles.  The shell hands osascript the single-quoted text     *)
(* that opens the argument of -e.  Where the command line ends with that  *)
(* quote, osascript compiles and runs the text, prints the result, and    *)
(* the promise resolves (or rejects where the text does not compile).     *)
(* Where it does not, osascript is handed the text up to the first        *)
(* apostrophe of the script, which is no script; the shell reads the rest *)
(* as commands and ends with an error, and the promise rejects.           *)
Launch ==
  /\ pc = "await"
  /\ LET arg == ShellArgument(command)
     IN  /\ program' = ParseScript(arg.quoted)
         /\ IF arg.whole /\ program'.ok
            THEN \E r \in RunScript(program', arg.quoted, doc) :
                   /\ doc' = r.doc
                   /\ foundItem' = r.found
                   /\ errorMessage' = r.errorMessage
                   /\ result' = Completed(r.stdout, <<>>)
                   /\ pc' = "parse"
            ELSE /\ \E sh \in Shells :
                      result' = Failed(CommandFailed(command,
                                  IF arg.whole THEN CompileError
                                  ELSE ShellSyntaxError(sh)))
                 /\ pc' = "catch"
                 /\ UNCHANGED <<doc, foundItem, errorMessage>>
         /\ ip' = Len(program'.stages) + 1
  /\ UNCHANGED <<params, script, command, execCalls, outcome, before, escVars>>

(* line 212: osascript cannot be started; the shell reports it, goes on   *)
(* with what is left of the command line, and the promise rejects         *)
SpawnFail ==
  /\ pc = "await"
  /\ \E sh \in Shells :
       result' = Failed(CommandFailed(command,
                   OsascriptNotFound(sh) \o
                   (IF ShellArgument(command).whole THEN <<>>
                    ELSE ShellSyntaxError(sh))))
  /\ pc' = "catch"
  /\ UNCHANGED <<params, script, command, execCalls, outcome, escVars, runVars>>

NextScript == Generate \/ Launch \/ SpawnFail \/ ParseResult \/ CatchError

SpecScript == InitScript /\ [][NextScript]_vars

----------------------------------------------------------------------------
(* The generated script as a program of its own: the text                  *)
(* generateAppleScript returns, compiled by the interpreter and run        *)
(* against the front document stage by stage.  No call of execAsync is     *)
(* part of it; result holds what the run prints, and outcome what lines    *)
(* 220-237 of removeItem make of that text.                                *)

InitRun ==
  /\ pc = "generate"
  /\ params \in ScriptRequests
  /\ \E layout \in Layouts : doc = Document(layout)
  /\ before = doc
  /\ script = <<>>
  /\ command = <<>>
  /\ execCalls = 0
  /\ result = NoResult
  /\ outcome = Pending
  /\ program = NoProgram
  /\ ip = 0
  /\ foundItem = Missing
  /\ errorMessage = <<>>
  /\ EscapeIdle

(* lines 60-193: generateAppleScript *)
GenerateScript ==
  /\ pc = "generate"
  /\ script' = generateAppleScript(params)
  /\ pc' = "compile"
  /\ UNCHANGED <<params, command, execCalls, result, outcome, escVars, runVars>>

(* line 88 of the script: the interpreter compiles the text and starts     *)
(* with foundItem missing; a text it cannot compile is not run             *)
Compile ==
  /\ pc = "compile"
  /\ program' = ParseScript(script)
  /\ pc' = (IF ~program'.ok THEN "fault"
            ELSE IF program'.kind = "return" THEN "return" ELSE "stage")
  /\ ip' = 1
  /\ foundItem' = Missing
  /\ UNCHANGED <<callVars, escVars, doc, before, errorMessage>>

(* line 68: the script that only returns the failure text *)
ReturnLiteral ==
  /\ pc = "return"
  /\ \E r \in ReturnResult(script, doc) : result' = Completed(r.stdout, <<>>)
  /\ pc' = "printed"
  /\ UNCHANGED <<params, script, command, execCalls, outcome, escVars, runVars>>

(* lines 94-166: the next lookup stage of the script *)
Stage ==
  /\ pc = "stage"
  /\ ip <= Len(program.stages)
  /\ foundItem' = RunStage(doc, program.stages[ip], foundItem)
  /\ ip' = ip + 1
  /\ UNCHANGED <<pc, callVars, escVars, doc, before, program, errorMessage>>

(* lines 173-181 (and 188-189 when escapeForJSON raises): the item is    *)
(* read, deleted, and the result is built from its id and escaped name   *)
RemoveFound ==
  /\ pc = "stage"
  /\ ip > Len(program.stages)
  /\ foundItem # Missing
  /\ \E r \in RemovalResults(doc, foundItem) :
       /\ doc' = r.doc
       /\ errorMessage' = r.errorMessage
       /\ result' = Completed(r.stdout, <<>>)
  /\ pc' = "printed"
  /\ UNCHANGED <<params, script, command, execCalls, outcome, escVars, before,
                 program, ip, foundItem>>

(* lines 178, 188-189: delete raises and the error handler reports it *)
DeleteFault ==
  /\ pc = "stage"
  /\ ip > Len(program.stages)
  /\ foundItem # Missing
  /\ \E r \in FaultResult(doc, foundItem) :
       /\ errorMessage' = r.errorMessage
       /\ result' = Completed(r.stdout, <<>>)
  /\ pc' = "printed"
  /\ UNCHANGED <<params, script, command, execCalls, outcome, escVars, doc,
                 before, program, ip, foundItem>>

(* lines 182-184: no stage found an item *)
NotFound ==
  /\ pc = "stage"
  /\ ip > Len(program.stages)
  /\ foundItem = Missing
  /\ \E r \in NotFoundResult(doc) : result' = Completed(r.stdout, <<>>)
  /\ pc' = "printed"
  /\ UNCHANGED <<params, script, command, execCalls, outcome, escVars, runVars>>

(* lines 220-237, applied to the text the run printed: the outcome       *)
(* removeItem makes of that text as stdout                                *)
MapPrinted ==
  /\ pc = "printed"
  /\ outcome' = MapResult(result.stdout, result.stderr)
  /\ pc' = "mapped"
  /\ UNCHANGED <<params, script, command, execCalls, result, escVars, runVars>>

NextRun ==
  \/ GenerateScript \/ Compile \/ ReturnLiteral \/ Stage \/ RemoveFound
  \/ DeleteFault \/ NotFound \/ MapPrinted

SpecRun == InitRun /\ [][NextRun]_vars

----------------------------------------------------------------------------
(* Properties *)

HasIdentifier == Truthy(params.id) \/ Truthy(params.name)

InvalidRequestOutcome ==
  Resolved(JsBool(FALSE), Undefined, Undefined,
           JsStr(<<"Either id or name must be provided">>))

(* C1: when id and name are both absent or empty, removeItem resolves to *)
(* {success:false, error:"Either id or name must be provided"} and the   *)
(* execution collaborator is called zero times during the call.          *)
C1_InvalidRequestSpawnsNothing ==
  ~HasIdentifier =>
    /\ execCalls = 0
    /\ pc = "done" => outcome = InvalidRequestOutcome

WellFormed(o) ==
  \/ /\ o.success = JsBool(TRUE)
     /\ o.id.t = "string"
     /\ o.name.t = "string"
     /\ o.error = Undefined
  \/ /\ o.success = JsBool(FALSE)
     /\ o.error.t = "string"

(* C3: every outcome removeItem returns, for any stdout, is success=true *)
(* with id and name populated and no error, or success=false with error  *)
(* populated.                                                            *)
C3_OutcomeWellFormed ==
  (pc = "done" /\ outcome.state = "resolved") => WellFormed(outcome)

(* The lookup stages as C4 lists them: id before name, the hierarchical  *)
(* collection before the inbox, id stages for a non-empty id, name       *)
(* stages for a non-empty name, inbox stages for tasks                    *)
Hierarchical(p) ==
  IF p.itemType = "task" THEN "flattened task" ELSE "flattened project"

StagesFor(p, key) ==
  IF ~Truthy(p[key]) THEN <<>>
  ELSE << [coll |-> Hierarchical(p), key |-> key, value |-> p[key].s] >> \o
       (IF p.itemType = "task"
        THEN << [coll |-> "inbox task", key |-> key, value |-> p[key].s] >>
        ELSE <<>>)

OrderedStages(p) == StagesFor(p, "id") \o StagesFor(p, "name")

(* The item of the first of the stages 1..n that matches one *)
RECURSIVE FirstHit(_, _, _, _)
FirstHit(d, stages, k, n) ==
  IF k > n THEN Missing
  ELSE LET hit == First(d, stages[k].coll, stages[k].key, stages[k].value)
       IN  IF hit # Missing THEN hit ELSE FirstHit(d, stages, k + 1, n)

(* C4: the script runs the stages id-hierarchical, id-inbox,             *)
(* name-hierarchical, name-inbox, each only where it applies, and after  *)
(* any number of them foundItem is the match of the earliest stage that  *)
(* matched; so an item matching the id is selected over one matching the *)
(* name.                                                                 *)
C4_StagesInOrder ==
  (pc \in {"return", "stage", "printed", "mapped", "fault"} /\ HasIdentifier) =>
    LET expected == OrderedStages(params)
    IN  /\ program.ok
        /\ program.kind = "removal"
        /\ Len(program.stages) = Len(expected)
        /\ \A k \in 1..Len(expected) :
             /\ program.stages[k].coll = expected[k].coll
             /\ program.stages[k].key = expected[k].key
             /\ program.stages[k].value = expected[k].value
        /\ foundItem = FirstHit(before, expected, 1, ip - 1)

(* Witness of C4: all stages ran with id and name given, the found item  *)
(* has the id, and the name search alone finds another item              *)
C4_Witness ==
  /\ pc = "stage"
  /\ Truthy(params.id) /\ Truthy(params.name)
  /\ ip > Len(program.stages)
  /\ foundItem # Missing
  /\ ItemOf(before, foundItem).id = params.id.s
  /\ FirstHit(before, StagesFor(params, "name"), 1, Len(StagesFor(params, "name")))
       \notin {Missing, foundItem}

(* C5: reading escapeForAppleScript(text) back as the body of a          *)
(* double-quoted literal yields the text.                                *)
C5_RoundTrip ==
  (pc = "done" /\ str.t = "string") => (decoded.ok /\ decoded.value = str.s)

(* Witness of C5: a backslash before n and a quote came back unchanged   *)
C5_Witness ==
  /\ pc = "done"
  /\ str = JsStr(<<BS, "n", DQ>>)
  /\ decoded.value = <<BS, "n", DQ>>

(* The number of backslashes that end at position i of s *)
RECURSIVE BackslashRun(_, _)
BackslashRun(s, i) ==
  IF i >= 1 /\ s[i] = BS THEN 1 + BackslashRun(s, i - 1) ELSE 0

(* C6: the escaped text holds no raw line feed, carriage return or tab,  *)
(* every double quote in it follows an odd number of backslashes, and    *)
(* the literal it is put in closes at the quote written after it.        *)
C6_ConfinedToLiteral ==
  /\ pc \in {"read", "done"} =>
       \A i \in 1..Len(escaped) :
         /\ escaped[i] \notin {NL, CR, TAB}
         /\ escaped[i] = DQ => BackslashRun(escaped, i - 1) % 2 = 1
  /\ pc = "done" => (decoded.ok /\ decoded.next = Len(escaped) + 3)

(* Witness of C6: a text of a backslash, a quote and a line feed escaped *)
C6_Witness ==
  /\ pc = "done"
  /\ str = JsStr(<<BS, DQ, NL>>)
  /\ escaped = <<BS, BS, BS, DQ, BS, "n">>

ParseFailure(stdout) ==
  Resolved(JsBool(FALSE), Undefined, Undefined,
           JsStr(<<"Failed to parse result", ":", " ">> \o stdout))

Copied(r) ==
  Resolved(Prop(r, "success"), Prop(r, "id"), Prop(r, "name"), Prop(r, "error"))

(* C7 as stated: after a normal completion the outcome copies the four   *)
(* fields whenever stdout parses as JSON, and is the parse failure with  *)
(* the raw stdout whenever it does not.                                  *)
C7_Original ==
  (pc = "done" /\ result.kind = "completed") =>
    LET r == JSONParse(result.stdout)
    IN  outcome = (IF r.ok THEN Copied(r) ELSE ParseFailure(result.stdout))

(* C7, amended: after a normal completion the outcome depends on stdout  *)
(* alone: the four fields are copied when stdout parses as JSON to a     *)
(* value other than null, and the outcome is the parse failure with the  *)
(* raw stdout when it does not parse or parses to null.                  *)
C7_OutcomeFromStdout ==
  (pc = "done" /\ result.kind = "completed") =>
    LET r == JSONParse(result.stdout)
    IN  outcome = (IF r.ok /\ r.v # Null THEN Copied(r)
                   ELSE ParseFailure(result.stdout))

(* Witness of C7: stderr was not empty and the outcome is the success    *)
(* that stdout holds                                                     *)
C7_Witness ==
  /\ pc = "done"
  /\ result.kind = "completed"
  /\ result.stderr # <<>>
  /\ outcome.success = JsBool(TRUE)
  /\ outcome.id = JsStr(<<"abc123">>)

(* C8: a run of the script in which a stage found an item removes that   *)
(* item and no other and prints success:true with the id and the name    *)
(* the item had; a run in which none did prints success:false with       *)
(* "Item not found".  Stated for the runs in which delete does not raise. *)
C8_RemovesAndReports ==
  (pc \in {"printed", "mapped"} /\ program.kind = "removal"
     /\ errorMessage # DeleteError) =>
    LET printed == JSONParse(result.stdout)
    IN  IF foundItem # Missing
        THEN /\ doc = Delete(before, foundItem)
             /\ printed.ok
             /\ Prop(printed, "success") = JsBool(TRUE)
             /\ Prop(printed, "id") = JsStr(ItemOf(before, foundItem).id)
             /\ Prop(printed, "name") = JsStr(ItemOf(before, foundItem).name)
        ELSE /\ doc = before
             /\ printed.ok
             /\ Prop(printed, "success") = JsBool(FALSE)
             /\ Prop(printed, "error") = JsStr(<<"Item not found">>)

(* C9: for a request with an id or a name, the script the interpreter    *)
(* receives is the text generateAppleScript returned: the single-quoted  *)
(* argument of the command line ends where the script ends.              *)
C9_ScriptArrivesWhole ==
  (pc \in {"await", "parse", "catch", "done"} /\ HasIdentifier) =>
    ShellArgument(command) = [quoted |-> script, whole |-> TRUE]

====
